---------------------------- MODULE Spec2Model ----------------------------
(***************************************************************************)
(* A model of the zendesk-scripts programs: the urllib2 request executor   *)
(* (_fetch_request / fetch_request), the bulk deletion loop                *)
(* (delete_tickets) and the page walkers built on the /search and          *)
(* /incremental endpoints.                                                 *)
(*                                                                         *)
(* A program is a sequential Python process.  Its position is `pc`; the    *)
(* position of the request executor it is blocked in is `fpc`.  The remote *)
(* service is the environment: every attempt of the executor receives an   *)
(* arbitrary response.                                                     *)
(***************************************************************************)
EXTENDS Integers, Sequences, FiniteSets, TLC

VARIABLES
    prog,       \* which entry point runs
    pc,         \* position of the running entry point
    fpc,        \* executor: "idle", "try", "returned" or "raised"
    attempt,    \* executor: index of the for loop (0 .. NUM_HTTP_RETRIES)
    sleeps,     \* executor: calls of sleep() made for the current request
    nreq,       \* history: urlopen calls made for the current request
    nfail,      \* history: retriable failures answered to the current request
    last,       \* history: the response of the latest attempt
    fresult,    \* executor: the value returned ([isNone, body])
    ncalls,     \* history: logical requests started so far
    idsIn,      \* delete_tickets: the id list it was called with
    ids,        \* delete_tickets: the ids not yet put in a batch
    phase,      \* the mutation phase the loop runs for ("DELETE", "SCRUB")
    batches,    \* history: the bulk requests issued, in order
    acks,       \* history: how each bulk request ended, in order
    url,        \* walkers: the cursor of the page to fetch
    tickets,    \* search / incremental walk: the (id, created_date) list
    tix,        \* _find_tickets: the deleted tickets collected
    unique_ticket_ids,  \* _find_ticket, _find_tickets: the ids seen
    npages,     \* history: page requests issued by the walker
    sentinels,  \* history: times the executor returned None to the walker
    missingNext,    \* history: a parsed page lacked the next_page field
    last_start_time,  \* _find_ticket: the watermark of the page just read
    num_consecutive_small_diffs,  \* _find_ticket: the heuristic's counter
    now,        \* the wall clock at its latest reading
    smallrun,   \* history: consecutive transitions with a delta <= 10 s
    allRecent,  \* history: every watermark so far lay in the last 24 hours
    pickle,     \* _find_tickets: the checkpoint file ([exists, objs])
    runs,       \* history: runs of the process so far
    today,      \* the calendar date of the wall clock ([y, m, d])
    days,       \* args['days']: the age threshold
    allowed,    \* the status allow-list handed to the filter ([isNone, set])
    old_tickets,    \* get_all_old_tickets_sorted: the list it returns
    fetched,    \* history: the (id, date) of every record of the pages read
    spent,      \* history: urlopen calls made for all the requests so far
    runreqs,    \* history: the cursors requested by the current run
    num_retries_remaining,  \* _get_command_result: the counter of its loop
    feed,       \* the pages the remote service holds, by cursor
    mainpc,     \* _main of delete_old_tickets.py: the call it is in
    query       \* get_search_url: the date of the `created<` bound

execVars == <<fpc, attempt, sleeps, nreq, nfail, last, fresult, ncalls>>

mutVars == <<idsIn, ids, phase, batches, acks>>

findVars == <<last_start_time, num_consecutive_small_diffs, now, smallrun, allRecent>>

pklVars == <<pickle, runs>>

walkVars == <<url, tickets, tix, unique_ticket_ids, npages, sentinels, missingNext,
              findVars, pklVars>>

filtVars == <<today, days, allowed, old_tickets>>

ghostVars == <<fetched, spent, runreqs>>

progVars == <<num_retries_remaining, feed, mainpc, query>>

moreVars == <<filtVars, ghostVars, progVars>>

vars == <<prog, pc, execVars, mutVars, walkVars, moreVars>>

(***************************************************************************)
(* Program constants.                                                      *)
(***************************************************************************)
NUM_HTTP_RETRIES == 3
BatchSize == 100

(***************************************************************************)
(* Bounds of the model.                                                    *)
(***************************************************************************)
MaxCalls == 3
MaxIds == 250
MaxLifecycleIds == 201
MaxPages == 3
MaxFindPages == 5
MaxDeletedPages == 3
MaxRuns == 2

(***************************************************************************)
(* Responses of the remote service, as urllib2.urlopen reports them.       *)
(***************************************************************************)
OpaqueBodies == {"body1", "body2"}

NoBody == "nobody"

OkResponses(bodies) ==
    {[kind |-> "ok", msg |-> m, body |-> b] : m \in {"OK", "Accepted"}, b \in bodies}

HttpErrors ==
    {[kind |-> "HTTPError", code |-> c] : c \in {422, 429, 500}}

UrlErrors ==
    {[kind |-> "URLError", reason |-> s] :
        s \in {"Unprocessable Entity", "Too Many Requests", "Connection refused"}}

SocketErrors == {[kind |-> "socket.timeout"], [kind |-> "socket.error"]}

ErrorResponses == HttpErrors \cup UrlErrors \cup SocketErrors

NoResponse == [kind |-> "none"]

None == [isNone |-> TRUE, body |-> NoBody]

Some(b) == [isNone |-> FALSE, body |-> b]

(***************************************************************************)
(* What one attempt of _fetch_request does with a response:                *)
(*   "return_body"  return response.read()                                 *)
(*   "return_none"  return None                                            *)
(*   "sleep_429"    _handle_http_429: sleep, next iteration                *)
(*   "sleep_err"    _handle_generic_http_err: sleep, next iteration        *)
(***************************************************************************)
\* HandleResponse without the 'Unprocessable Entity' test of the URLError
\* handler.
HandleResponseNoUrl422(r) ==
    CASE r.kind = "ok" -> "return_body"
      [] r.kind = "HTTPError" ->
            IF r.code = 422 THEN "return_none"
            ELSE IF r.code = 429 THEN "sleep_429"
            ELSE "sleep_err"
      [] r.kind = "URLError" ->
            IF r.reason = "Too Many Requests" THEN "sleep_429"
            ELSE "sleep_err"
      [] OTHER -> "sleep_err"

\* HandleResponse with the two tests of the HTTPError handler swapped.
HandleResponse429AsSentinel(r) ==
    CASE r.kind = "ok" -> "return_body"
      [] r.kind = "HTTPError" ->
            IF r.code = 429 THEN "return_none"
            ELSE IF r.code = 422 THEN "sleep_429"
            ELSE "sleep_err"
      [] r.kind = "URLError" ->
            IF r.reason = "Unprocessable Entity" THEN "return_none"
            ELSE IF r.reason = "Too Many Requests" THEN "sleep_429"
            ELSE "sleep_err"
      [] OTHER -> "sleep_err"

HandleResponse(r) ==
    CASE r.kind = "ok" -> "return_body"
      [] r.kind = "HTTPError" ->
            IF r.code = 422 THEN "return_none"
            ELSE IF r.code = 429 THEN "sleep_429"
            ELSE "sleep_err"
      [] r.kind = "URLError" ->
            IF r.reason = "Unprocessable Entity" THEN "return_none"
            ELSE IF r.reason = "Too Many Requests" THEN "sleep_429"
            ELSE "sleep_err"
      [] OTHER -> "sleep_err"

\* _handle_http_429 and _handle_generic_http_err: one sleep of the default
\* length each.
\* SleepsOf with a generic handler that does not sleep.
SleepsOnlyOn429(outcome) ==
    IF outcome = "sleep_429" THEN 1 ELSE 0

SleepsOf(outcome) ==
    IF outcome \in {"sleep_429", "sleep_err"} THEN 1 ELSE 0

\* range(0, const.NUM_HTTP_RETRIES + 1): the indices of the for loop.
\* LastAttempt for range(0, const.NUM_HTTP_RETRIES + 2).
LastAttemptOneMore == NUM_HTTP_RETRIES + 1

LastAttempt == NUM_HTTP_RETRIES

\* The environment's view of a response: a failure the executor is to retry.
IsSentinel(r) ==
    \/ (r.kind = "HTTPError" /\ r.code = 422)
    \/ (r.kind = "URLError" /\ r.reason = "Unprocessable Entity")

IsRateLimit(r) ==
    \/ (r.kind = "HTTPError" /\ r.code = 429)
    \/ (r.kind = "URLError" /\ r.reason = "Too Many Requests")

IsRetriable(r) == r \in ErrorResponses /\ ~IsSentinel(r)

(***************************************************************************)
(* The executor.  FetchStart is the call; FetchAttempt is one iteration of *)
(* the for loop, its handler and sleep included, and the raise that        *)
(* follows the last iteration.  urlopen returns a response or raises: the  *)
(* `response is None` branch is never taken.  fetch_request of http.py is  *)
(* the same code.                                                          *)
(***************************************************************************)
ExecInit ==
    /\ fpc = "idle"
    /\ attempt = 0
    /\ sleeps = 0
    /\ nreq = 0
    /\ nfail = 0
    /\ last = NoResponse
    /\ fresult = None
    /\ ncalls = 0

\* FetchStart that goes on with the loop index of the request before.
FetchStartKeepsCount ==
    /\ fpc' = "try"
    /\ attempt' = attempt
    /\ sleeps' = 0
    /\ nreq' = attempt
    /\ nfail' = attempt
    /\ last' = NoResponse
    /\ fresult' = None
    /\ ncalls' = ncalls + 1

FetchStart ==
    /\ fpc' = "try"
    /\ attempt' = 0
    /\ sleeps' = 0
    /\ nreq' = 0
    /\ nfail' = 0
    /\ last' = NoResponse
    /\ fresult' = None
    /\ ncalls' = ncalls + 1

\* FetchAttempt that raises after the last failure without the sleep of its
\* handler.
FetchAttemptNoLastSleep(r) ==
    LET outcome == HandleResponse(r) IN
    /\ fpc = "try"
    /\ last' = r
    /\ nreq' = nreq + 1
    /\ nfail' = IF IsRetriable(r) THEN nfail + 1 ELSE nfail
    /\ sleeps' = IF attempt < LastAttempt THEN sleeps + SleepsOf(outcome) ELSE sleeps
    /\ ncalls' = ncalls
    /\ CASE outcome = "return_body" ->
                /\ fpc' = "returned"
                /\ fresult' = Some(r.body)
                /\ attempt' = attempt
         [] outcome = "return_none" ->
                /\ fpc' = "returned"
                /\ fresult' = None
                /\ attempt' = attempt
         [] OTHER ->
                /\ fresult' = fresult
                /\ IF attempt < LastAttempt
                   THEN /\ attempt' = attempt + 1
                        /\ fpc' = "try"
                   ELSE /\ attempt' = attempt
                        /\ fpc' = "raised"

FetchAttempt(r) ==
    LET outcome == HandleResponse(r) IN
    /\ fpc = "try"
    /\ last' = r
    /\ nreq' = nreq + 1
    /\ nfail' = IF IsRetriable(r) THEN nfail + 1 ELSE nfail
    /\ sleeps' = sleeps + SleepsOf(outcome)
    /\ ncalls' = ncalls
    /\ CASE outcome = "return_body" ->
                /\ fpc' = "returned"
                /\ fresult' = Some(r.body)
                /\ attempt' = attempt
         [] outcome = "return_none" ->
                /\ fpc' = "returned"
                /\ fresult' = None
                /\ attempt' = attempt
         [] OTHER ->
                /\ fresult' = fresult
                /\ IF attempt < LastAttempt
                   THEN /\ attempt' = attempt + 1
                        /\ fpc' = "try"
                   ELSE /\ attempt' = attempt
                        /\ fpc' = "raised"

(***************************************************************************)
(* Cursors, records and pages of the walkers.                              *)
(***************************************************************************)
\* A cursor is a URL (told apart by the number in it) or JSON null.
Url(n) == [st |-> n]

NullUrl == [null |-> TRUE]

\* last_start_time = None
NoTime == -1

\* The wall clock, in seconds: its readings, and the watermarks the cursors
\* of the incremental feed carry.  At the first reading, 0 is more than two
\* days old, 113500 and 113505 are a little more than one day old, and the
\* others are less than two minutes old.
Clock == {200000, 200030}

ClockStart == CHOOSE c \in Clock : \A d \in Clock : c <= d

Watermarks == {0, 113500, 113505, 199900, 199910, 199921}

\* os.path.isfile(PICKLE_FILENAME) is false.
NoPickle == [exists |-> FALSE, objs |-> <<>>]

\* The variables of the walkers when no walk runs.
WalkIdle ==
    /\ url = NullUrl
    /\ tickets = <<>>
    /\ tix = <<>>
    /\ unique_ticket_ids = {}
    /\ npages = 0
    /\ sentinels = 0
    /\ missingNext = FALSE
    /\ last_start_time = NoTime
    /\ num_consecutive_small_diffs = 0
    /\ now = ClockStart
    /\ smallrun = 0
    /\ allRecent = TRUE
    /\ pickle = NoPickle
    /\ runs = 0

\* created_at strings, as sequences of characters.
Digits == {"0", "1", "2", "3", "4", "5", "6", "7", "8", "9"}

DateTimeA == <<"2", "0", "1", "5", "-", "0", "1", "-", "3", "1", "T", "0", "9", "Z">>

DateOnlyB == <<"2", "0", "1", "4", "-", "1", "2", "-", "0", "1">>

SlashDate == <<"0", "1", "/", "3", "1", "/", "2", "0", "1", "5">>

ShortDate == <<"2", "0", "1", "5", "-", "1", "-", "3", "1", "T", "0", "9">>

\* re.match(r'^(\d{4}-\d{2}-\d{2}).*$', s): `.` matches no newline, and `$`
\* matches at the end or before a newline that ends the string.
DateShape(s) ==
    /\ Len(s) >= 10
    /\ \A i \in {1, 2, 3, 4, 6, 7, 9, 10} : s[i] \in Digits
    /\ s[5] = "-"
    /\ s[8] = "-"
    /\ \A i \in 11..(Len(s) - 1) : s[i] # "\n"

\* matches.group(1)
DateGroup(s) == SubSeq(s, 1, 10)

\* The records of the pool and the record lists a page may hold.
RecA == [id |-> 1, created_at |-> DateTimeA]

RecB == [id |-> 2, created_at |-> DateOnlyB]

RecSlash == [id |-> 3, created_at |-> SlashDate]

RecShort == [id |-> 4, created_at |-> ShortDate]

\* `if len(tickets) > 100: url = None`, and a page of that many records.
DebugCap == 100

FullPage == [i \in 1..DebugCap |-> [id |-> i, created_at |-> DateOnlyB]]

RecLists ==
    {<<>>, <<RecB>>, <<RecA, RecB>>, <<RecA, RecSlash, RecB>>, <<RecShort>>, FullPage}

\* A parsed page body: the keys it has (the collection, next_page) and
\* their values.
WalkPages ==
    {[has_recs |-> TRUE, recs |-> l, has_next |-> TRUE, next |-> u] :
        l \in RecLists, u \in {Url(1), Url(2), NullUrl}}
    \cup {[has_recs |-> TRUE, recs |-> l, has_next |-> FALSE, next |-> NullUrl] :
        l \in {<<>>, <<RecA, RecB>>}}
    \cup {[has_recs |-> FALSE, recs |-> <<>>, has_next |-> FALSE, next |-> NullUrl]}

(***************************************************************************)
(* Calendar dates: datetime.strptime(s, "%Y-%m-%d"), the ordinal of a date *)
(* and _days_since_today.                                                  *)
(***************************************************************************)
DEFAULT_DAYS_OLD == 30

DigitVal(c) ==
    CASE c = "0" -> 0 [] c = "1" -> 1 [] c = "2" -> 2 [] c = "3" -> 3
      [] c = "4" -> 4 [] c = "5" -> 5 [] c = "6" -> 6 [] c = "7" -> 7
      [] c = "8" -> 8 [] c = "9" -> 9

\* int() of a string of digits.
RECURSIVE ToInt(_)
ToInt(s) ==
    IF s = <<>> THEN 0
    ELSE 10 * ToInt(SubSeq(s, 1, Len(s) - 1)) + DigitVal(s[Len(s)])

IsLeap(y) == (y % 4 = 0 /\ y % 100 # 0) \/ y % 400 = 0

DaysInMonth(y, m) ==
    IF m = 2 THEN (IF IsLeap(y) THEN 29 ELSE 28)
    ELSE IF m \in {4, 6, 9, 11} THEN 30 ELSE 31

\* datetime.strptime(s, "%Y-%m-%d") of a string of the date shape: the date,
\* or ValueError (ok = FALSE) when the fields name no day of the calendar.
strptime(s) ==
    LET y == ToInt(SubSeq(s, 1, 4))
        m == ToInt(SubSeq(s, 6, 7))
        d == ToInt(SubSeq(s, 9, 10))
    IN  [ok |-> y >= 1 /\ m \in 1..12 /\ d >= 1 /\ d <= DaysInMonth(y, m),
         y |-> y, m |-> m, d |-> d]

RECURSIVE DaysBeforeMonth(_, _)
DaysBeforeMonth(y, m) ==
    IF m <= 1 THEN 0 ELSE DaysBeforeMonth(y, m - 1) + DaysInMonth(y, m - 1)

\* date.toordinal(): the day number of a date of the proleptic Gregorian
\* calendar, 0001-01-01 being day 1.
toordinal(dt) ==
    LET y1 == dt.y - 1 IN
    y1 * 365 + (y1 \div 4) - (y1 \div 100) + (y1 \div 400)
        + DaysBeforeMonth(dt.y, dt.m) + dt.d

\* (datetime.today() - datetime.strptime(original_date, "%Y-%m-%d")).days:
\* the parsed date is a midnight and the clock carries a time of day, so the
\* whole days of the difference are the difference of the calendar days.
days_since_today(original_date, clock_date) ==
    toordinal(clock_date) - toordinal(strptime(original_date))

\* date.fromordinal(n): the date whose day number is n.
fromordinal(n) ==
    LET y == CHOOSE c \in ((n - 1) \div 366 + 1)..((n - 1) \div 365 + 1) :
                /\ toordinal([y |-> c, m |-> 1, d |-> 1]) <= n
                /\ n < toordinal([y |-> c + 1, m |-> 1, d |-> 1])
        m == CHOOSE c \in 1..12 :
                /\ toordinal([y |-> y, m |-> c, d |-> 1]) <= n
                /\ n < toordinal([y |-> y, m |-> c, d |-> 1]) + DaysInMonth(y, c)
    IN  [y |-> y, m |-> m, d |-> n - toordinal([y |-> y, m |-> m, d |-> 1]) + 1]

\* str(date): YYYY-MM-DD with leading zeros.
isoformat(dt) ==
    LET chars == <<"0", "1", "2", "3", "4", "5", "6", "7", "8", "9">>
        Two(k) == <<chars[((k \div 10) % 10) + 1], chars[(k % 10) + 1]>>
    IN  Two(dt.y \div 100) \o Two(dt.y % 100) \o <<"-">> \o Two(dt.m)
            \o <<"-">> \o Two(dt.d)

\* get_first_new_date with the bound one day too early for the filter.
get_first_new_date_early(clock_date, n) ==
    isoformat(fromordinal(toordinal(clock_date) - (n + 1)))

\* _get_first_new_date(days): str(date.today() - timedelta(days=(days - 1)))
get_first_new_date(clock_date, n) ==
    isoformat(fromordinal(toordinal(clock_date) - (n - 1)))

(***************************************************************************)
(* The inputs of get_all_old_tickets_sorted: the (id, date) tuples a walk  *)
(* returns, the date of the wall clock and args['days'].                   *)
(***************************************************************************)
Jan31 == DateGroup(DateTimeA)

Dec01 == DateGroup(DateOnlyB)

Jan30 == <<"2", "0", "1", "5", "-", "0", "1", "-", "3", "0">>

Feb30 == <<"2", "0", "1", "5", "-", "0", "2", "-", "3", "0">>

Leap29 == <<"2", "0", "1", "2", "-", "0", "2", "-", "2", "9">>

TicketLists ==
    {<<>>,
     <<<<1, Jan31>>>>,
     <<<<1, Jan31>>, <<2, Dec01>>>>,
     <<<<3, Jan31>>, <<2, Dec01>>, <<1, Jan31>>>>,
     <<<<1, Jan31>>, <<4, Jan30>>, <<3, Jan31>>, <<5, Jan30>>>>,
     <<<<5, Jan30>>, <<6, Feb30>>, <<2, Dec01>>>>,
     <<<<4, Leap29>>, <<2, Dec01>>, <<6, Jan30>>>>,
     <<<<2, Dec01>>, <<3, Jan30>>, <<1, Jan31>>>>}

\* The dates the clock shows: 30 and 31 days after 2015-01-31.
Today0 == [y |-> 2015, m |-> 3, d |-> 2]

Todays == {Today0, [y |-> 2015, m |-> 3, d |-> 3]}

DaysArgs == {0, DEFAULT_DAYS_OLD, DEFAULT_DAYS_OLD + 1}

\* The status of the ticket of each id on the remote service, and the
\* allow-lists the filter may be handed.
TicketStatus ==
    [i \in 1..6 |->
        CASE i = 1 -> "closed" [] i = 2 -> "open" [] i = 3 -> "solved"
          [] i = 4 -> "deleted" [] i = 5 -> "pending" [] OTHER -> "new"]

NoAllowList == [isNone |-> TRUE, set |-> {}]

AllowLists ==
    {[isNone |-> FALSE, set |-> {"closed", "solved", "deleted"}],
     [isNone |-> FALSE, set |-> {"open"}]}

\* The variables of the filter when it does not run.
FiltIdle ==
    /\ today = Today0
    /\ days = DEFAULT_DAYS_OLD
    /\ allowed = NoAllowList
    /\ old_tickets = <<>>

\* No feed is fixed, and no search URL was built.
NoFeed == <<>>

NoQuery == <<>>

\* The variables of the curl path, the fixed feed and _main when they do
\* not run.
ProgIdle ==
    /\ num_retries_remaining = 0
    /\ feed = NoFeed
    /\ mainpc = "off"
    /\ query = NoQuery

\* The history variables before anything ran.
GhostIdle ==
    /\ fetched = <<>>
    /\ spent = 0
    /\ runreqs = <<>>

(***************************************************************************)
(* delete_tickets: the bulk deletion loop.                                 *)
(***************************************************************************)
Min(a, b) == IF a < b THEN a ELSE b

\* Python's s[:k] and s[k:].
Take(s, k) == SubSeq(s, 1, Min(k, Len(s)))

Drop(s, k) == SubSeq(s, Min(k, Len(s)) + 1, Len(s))

\* get_bulk_delete_url: the guard that raises OverflowError, and the URL.
TooManyIds(bulk_ids) == Len(bulk_ids) > BatchSize

get_bulk_delete_url(bulk_ids) == [path |-> "destroy_many", ids |-> bulk_ids]

\* The scrub endpoint of the second phase: the same id list under another
\* path.
get_bulk_scrub_url(bulk_ids) == [path |-> "scrub_many", ids |-> bulk_ids]

\* The URL of a batch in the phase the loop runs for.
BulkUrl(ph, bulk_ids) ==
    IF ph = "DELETE" THEN get_bulk_delete_url(bulk_ids)
    ELSE get_bulk_scrub_url(bulk_ids)

\* BulkIds for bulk_ids = ids[:101].
BulkIdsOneMore(remaining) == Take(remaining, BatchSize + 1)

\* bulk_ids = ids[:100]
BulkIds(remaining) == Take(remaining, BatchSize)

\* RestIds for ids = ids[101:].
RestIdsSkipsOne(remaining) == Drop(remaining, BatchSize + 1)

\* ids = ids[100:]
RestIds(remaining) == Drop(remaining, BatchSize)

\* The variables of the loop when no mutation runs.
MutIdle ==
    /\ idsIn = <<>>
    /\ ids = <<>>
    /\ phase = "DELETE"
    /\ batches = <<>>
    /\ acks = <<>>

\* One pass of `while len(ids) > 0` from its head, `remaining` being the
\* value of ids there: the loop ends, or the next batch is cut off and its
\* request handed to _fetch_request.
MutateLoopOn(ph, remaining) ==
    IF Len(remaining) > 0
    THEN IF TooManyIds(BulkIds(remaining))
         THEN /\ pc' = "OverflowError"
              /\ ids' = RestIds(remaining)
              /\ UNCHANGED <<batches, execVars>>
         ELSE /\ pc' = "mutate_wait"
              /\ ids' = RestIds(remaining)
              /\ batches' = Append(batches,
                    [phase |-> ph, url |-> BulkUrl(ph, BulkIds(remaining))])
              /\ FetchStart
    ELSE /\ pc' = "mutate_done"
         /\ ids' = remaining
         /\ UNCHANGED <<batches, execVars>>

MutateLoop == MutateLoopOn(phase, ids)

\* delete_tickets(args, ids) is entered.
DeleteStart ==
    /\ prog \in {"delete_tickets", "lifecycle"}
    /\ pc = "main"
    /\ ids = idsIn
    /\ MutateLoop
    /\ UNCHANGED <<prog, moreVars, idsIn, phase, acks, walkVars>>

\* One attempt of the request of the current batch.
MutateAttempt ==
    /\ pc = "mutate_wait"
    /\ \E r \in OkResponses(OpaqueBodies) \cup ErrorResponses : FetchAttempt(r)
    /\ UNCHANGED <<prog, moreVars, pc, mutVars, walkVars>>

\* _fetch_request returned: its result is dropped and the loop goes on.
MutateReturn ==
    /\ pc = "mutate_wait"
    /\ fpc = "returned"
    /\ acks' = Append(acks, IF fresult.isNone THEN "none" ELSE "ok")
    /\ MutateLoop
    /\ UNCHANGED <<prog, moreVars, idsIn, phase, walkVars>>

\* MutateRaise with the exception caught and the loop going on.
MutateRaiseSwallowed ==
    /\ pc = "mutate_wait"
    /\ fpc = "raised"
    /\ acks' = Append(acks, "raised")
    /\ MutateLoop
    /\ UNCHANGED <<prog, moreVars, idsIn, phase, walkVars>>

\* _fetch_request raised MaxTriesExceededError: nothing catches it.
MutateRaise ==
    /\ pc = "mutate_wait"
    /\ fpc = "raised"
    /\ acks' = Append(acks, "raised")
    /\ pc' = "MaxTriesExceededError"
    /\ UNCHANGED <<prog, moreVars, idsIn, ids, phase, batches, execVars, walkVars>>

\* The id lists delete_tickets is called with: n distinct ticket ids.
IdList(n) == [i \in 1..n |-> i]

InitDelete ==
    /\ prog = "delete_tickets"
    /\ pc = "main"
    /\ ExecInit
    /\ \E n \in 0..MaxIds : idsIn = IdList(n)
    /\ ids = idsIn
    /\ phase = "DELETE"
    /\ batches = <<>>
    /\ acks = <<>>
    /\ WalkIdle
    /\ FiltIdle
    /\ GhostIdle
    /\ ProgIdle

NextDelete == DeleteStart \/ MutateAttempt \/ MutateReturn \/ MutateRaise

SpecDelete == InitDelete /\ [][NextDelete]_vars

(***************************************************************************)
(* The delete-then-scrub lifecycle.  The orchestrating caller hands the    *)
(* full id list to the mutation loop once per phase: the DELETE pass, and  *)
(* when it has returned the SCRUB pass over the same list.                 *)
(***************************************************************************)
ScrubStart ==
    /\ prog = "lifecycle"
    /\ pc = "mutate_done"
    /\ phase = "DELETE"
    /\ phase' = "SCRUB"
    /\ MutateLoopOn("SCRUB", idsIn)
    /\ UNCHANGED <<prog, moreVars, idsIn, acks, walkVars>>

ScrubDone ==
    /\ prog = "lifecycle"
    /\ pc = "mutate_done"
    /\ phase = "SCRUB"
    /\ pc' = "lifecycle_done"
    /\ UNCHANGED <<prog, moreVars, execVars, mutVars, walkVars>>

InitLifecycle ==
    /\ prog = "lifecycle"
    /\ pc = "main"
    /\ ExecInit
    /\ \E n \in 0..MaxLifecycleIds : idsIn = IdList(n)
    /\ ids = idsIn
    /\ phase = "DELETE"
    /\ batches = <<>>
    /\ acks = <<>>
    /\ WalkIdle
    /\ FiltIdle
    /\ GhostIdle
    /\ ProgIdle

NextLifecycle ==
    \/ DeleteStart \/ MutateAttempt \/ MutateReturn \/ MutateRaise
    \/ ScrubStart \/ ScrubDone

SpecLifecycle == InitLifecycle /\ [][NextLifecycle]_vars

(***************************************************************************)
(* get_all_ids_and_creation_dates_search and                               *)
(* get_all_ids_and_creation_dates_incremental: the page walks of           *)
(* delete_old_tickets.py.                                                  *)
(***************************************************************************)
\* The first record of a page whose created_at has not the date shape, or
\* one more than the number of records when there is none.
FirstWithoutDate(recs) ==
    LET bad == {k \in 1..Len(recs) : ~DateShape(recs[k].created_at)} IN
    IF bad = {} THEN Len(recs) + 1
    ELSE CHOOSE k \in bad : \A j \in bad : k <= j

\* ParseRecords that passes over a record without a date and goes on.
ParseRecordsSkipBad(recs, acc) ==
    LET good == SelectSeq(recs, LAMBDA r : DateShape(r.created_at)) IN
    [ok |-> TRUE,
     tickets |-> acc \o [i \in 1..Len(good) |->
                            <<good[i].id, DateGroup(good[i].created_at)>>]]

\* The for loop over the records of a page: each record whose created_at has
\* the date shape is appended as (id, date); the first that has not ends the
\* process (sys.exit).
ParseRecords(recs, acc) ==
    LET n == FirstWithoutDate(recs) - 1 IN
    [ok |-> n = Len(recs),
     tickets |-> acc \o [i \in 1..n |-> <<recs[i].id, DateGroup(recs[i].created_at)>>]]

\* The records of a page as the walk is to collect them: the id and the
\* first ten characters of created_at.
PageTuples(recs) ==
    [i \in 1..Len(recs) |-> <<recs[i].id, SubSeq(recs[i].created_at, 1, 10)>>]

\* NextCursor that ends every walk at the first page that left a ticket.
NextCursorStopsEarly(walk, next, collected) ==
    IF Len(collected) > 0 THEN NullUrl ELSE next

\* url = result_json['next_page'], and in the incremental walk the debug cap
\* that ends the walk once more than 100 tickets are collected.
NextCursor(walk, next, collected) ==
    IF walk = "incremental" /\ Len(collected) > DebugCap THEN NullUrl ELSE next

\* `while url is not None` from its head with url = u: the walk returns its
\* tickets, or the request of the page is handed to _fetch_request.
WalkIssue(u) ==
    IF u = NullUrl
    THEN /\ pc' = "walk_done"
         /\ UNCHANGED <<execVars, npages>>
    ELSE /\ npages < MaxPages
         /\ pc' = "walk_wait"
         /\ npages' = npages + 1
         /\ FetchStart

WalkStart ==
    /\ prog \in {"search", "incremental"}
    /\ pc = "main"
    /\ url' = Url(0)
    /\ tickets' = <<>>
    /\ WalkIssue(Url(0))
    /\ query' = IF prog = "search" THEN get_first_new_date(today, days) ELSE query
    /\ UNCHANGED <<prog, filtVars, ghostVars, num_retries_remaining, feed, mainpc,
                   mutVars, tix, unique_ticket_ids, sentinels, missingNext, findVars,
                   pklVars>>

\* The pages served to the walks of a whole run of _main, and to a walk on
\* its own.
MainPages ==
    {p \in WalkPages : /\ p.has_next
                       /\ p.recs \in {<<>>, <<RecB>>, <<RecA, RecB>>}
                       /\ p.next \in {Url(1), NullUrl}}

ServedWalkPages == IF mainpc = "off" THEN WalkPages ELSE MainPages

WalkAttempt ==
    /\ pc = "walk_wait"
    /\ \E r \in OkResponses(ServedWalkPages) \cup ErrorResponses : FetchAttempt(r)
    /\ UNCHANGED <<prog, moreVars, pc, mutVars, walkVars>>

\* _fetch_request returned None: the body of the loop is skipped and the
\* loop starts over with the same url.
WalkReturnNone ==
    /\ pc = "walk_wait"
    /\ fpc = "returned"
    /\ fresult.isNone
    /\ sentinels' = sentinels + 1
    /\ WalkIssue(url)
    /\ UNCHANGED <<prog, moreVars, mutVars, url, tickets, tix, unique_ticket_ids, missingNext, findVars, pklVars>>

\* _fetch_request returned a body: the page is parsed and its records
\* collected, and the loop goes on at the next cursor.
WalkReturnPage ==
    /\ pc = "walk_wait"
    /\ fpc = "returned"
    /\ ~fresult.isNone
    /\ LET page == fresult.body
           parsed == ParseRecords(page.recs, tickets)
       IN  IF ~page.has_recs
           THEN /\ pc' = "AttributeError"
                /\ UNCHANGED <<execVars, url, tickets, npages, missingNext>>
           ELSE IF ~parsed.ok
           THEN /\ pc' = "sys.exit"
                /\ tickets' = parsed.tickets
                /\ UNCHANGED <<execVars, url, npages, missingNext>>
           ELSE IF ~page.has_next
           THEN /\ pc' = "sys.exit"
                /\ tickets' = parsed.tickets
                /\ missingNext' = TRUE
                /\ UNCHANGED <<execVars, url, npages>>
           ELSE /\ tickets' = parsed.tickets
                /\ url' = NextCursor(prog, page.next, parsed.tickets)
                /\ missingNext' = missingNext
                /\ WalkIssue(NextCursor(prog, page.next, parsed.tickets))
    /\ fetched' = fetched \o PageTuples(fresult.body.recs)
    /\ UNCHANGED <<prog, progVars, filtVars, spent, runreqs, mutVars, tix, unique_ticket_ids,
                   sentinels, findVars, pklVars>>

\* _fetch_request raised MaxTriesExceededError: the search walk warns and
\* returns what it has; the incremental walk does not catch it.
WalkRaise ==
    /\ pc = "walk_wait"
    /\ fpc = "raised"
    /\ pc' = IF prog = "search" THEN "walk_done" ELSE "MaxTriesExceededError"
    /\ UNCHANGED <<prog, moreVars, execVars, mutVars, walkVars>>

InitWalk ==
    /\ prog \in {"search", "incremental"}
    /\ pc = "main"
    /\ ExecInit
    /\ MutIdle
    /\ WalkIdle
    /\ FiltIdle
    /\ GhostIdle
    /\ ProgIdle

NextWalk ==
    WalkStart \/ WalkAttempt \/ WalkReturnNone \/ WalkReturnPage \/ WalkRaise

SpecWalk == InitWalk /\ [][NextWalk]_vars

(***************************************************************************)
(* _find_ticket of find_ticket.py: the walk of the incremental feed that   *)
(* looks for one ticket id and gives up at the live edge of the feed.      *)
(***************************************************************************)
NUM_SEC_SMALL_DIFF == 10
NUM_SMALL_DIFS_TO_QUIT == 3
SecondsPerDay == 86400

\* The id looked for (sys.argv[4]).
TargetId == 2

\* The tickets of a page, by id, and the pages of the feed.
FindRecLists == {<<>>, <<1, 3>>, <<3, 2, 1>>}

FindPages ==
    {[has_recs |-> TRUE, recs |-> l, has_next |-> TRUE, next |-> Url(w)] :
        l \in FindRecLists, w \in Watermarks}
    \cup {[has_recs |-> TRUE, recs |-> <<1, 3>>, has_next |-> TRUE, next |-> NullUrl],
          [has_recs |-> TRUE, recs |-> <<1, 3>>, has_next |-> FALSE, next |-> NullUrl],
          [has_recs |-> FALSE, recs |-> <<>>, has_next |-> TRUE, next |-> Url(0)]}

\* _is_time_diff_small with a strict comparison.
is_time_diff_small_strict(timestamp1, timestamp2) ==
    timestamp2 - timestamp1 < NUM_SEC_SMALL_DIFF

\* _is_time_diff_small
is_time_diff_small(timestamp1, timestamp2) ==
    timestamp2 - timestamp1 <= NUM_SEC_SMALL_DIFF

\* (now - d1).days: whole days, rounded down.
DaysBetween(t, clock) == (clock - t) \div SecondsPerDay

\* is_within_24hrs
is_within_24hrs(unix_timestamp, clock) ==
    DaysBetween(unix_timestamp, clock) \in {0, 1}

\* _get_start_time(url): the number after start_time= in the URL.
get_start_time(u) == u.st

\* The position of the first ticket of the page with the id looked for, or 0.
FoundAt(recs) ==
    IF \E i \in 1..Len(recs) : recs[i] = TargetId
    THEN CHOOSE i \in 1..Len(recs) :
            recs[i] = TargetId /\ \A j \in 1..(i - 1) : recs[j] # TargetId
    ELSE 0

IdsUpTo(recs, k) == {recs[i] : i \in 1..k}

\* The test of the heuristic (lines 89-91).
SmallDiffTest(lst, nxt, clock) ==
    /\ lst # NoTime
    /\ is_within_24hrs(lst, clock)
    /\ is_time_diff_small(lst, nxt)

\* A timestamp that lies in the 24 hours before the clock's reading.
InLast24Hours(t, clock) == clock - t >= 0 /\ clock - t <= SecondsPerDay

\* One pass of `while True`: the page at url is fetched and looked through,
\* and the heuristic decides whether the walk goes on at the next cursor.
FindTicketPage ==
    /\ prog = "find_ticket"
    /\ pc = "find_loop"
    /\ npages < MaxFindPages
    /\ npages' = npages + 1
    /\ \E page \in FindPages, clock \in {c \in Clock : c >= now} :
        IF ~page.has_recs
        THEN /\ pc' = "AssertionError"
             /\ UNCHANGED <<url, unique_ticket_ids, missingNext, findVars>>
        ELSE IF FoundAt(page.recs) > 0
        THEN /\ pc' = "found"
             /\ unique_ticket_ids' =
                    unique_ticket_ids \cup IdsUpTo(page.recs, FoundAt(page.recs))
             /\ UNCHANGED <<url, missingNext, findVars>>
        ELSE IF ~page.has_next
        THEN /\ pc' = "AssertionError"
             /\ unique_ticket_ids' =
                    unique_ticket_ids \cup IdsUpTo(page.recs, Len(page.recs))
             /\ missingNext' = TRUE
             /\ UNCHANGED <<url, findVars>>
        ELSE IF page.next = NullUrl
        THEN /\ pc' = "TypeError"
             /\ unique_ticket_ids' =
                    unique_ticket_ids \cup IdsUpTo(page.recs, Len(page.recs))
             /\ last_start_time' = get_start_time(url)
             /\ url' = page.next
             /\ UNCHANGED <<missingNext, num_consecutive_small_diffs, now,
                            smallrun, allRecent>>
        ELSE LET lst == get_start_time(url)
                 nxt == get_start_time(page.next)
             IN  /\ unique_ticket_ids' =
                        unique_ticket_ids \cup IdsUpTo(page.recs, Len(page.recs))
                 /\ last_start_time' = lst
                 /\ url' = page.next
                 /\ now' = clock
                 /\ missingNext' = missingNext
                 /\ smallrun' = IF nxt - lst <= 10 THEN smallrun + 1 ELSE 0
                 /\ allRecent' = (/\ allRecent
                                  /\ InLast24Hours(lst, clock)
                                  /\ InLast24Hours(nxt, clock))
                 /\ IF SmallDiffTest(lst, nxt, clock)
                    THEN /\ num_consecutive_small_diffs' =
                                num_consecutive_small_diffs + 1
                         /\ pc' = IF num_consecutive_small_diffs + 1
                                        = NUM_SMALL_DIFS_TO_QUIT
                                  THEN "gave_up" ELSE "find_loop"
                    ELSE /\ num_consecutive_small_diffs' = 0
                         /\ pc' = "find_loop"
    /\ UNCHANGED <<prog, moreVars, execVars, mutVars, tickets, tix, sentinels, pklVars>>

\* http.fetch_curl or json.loads fails: nothing catches the exception.
FindFetchFail ==
    /\ prog = "find_ticket"
    /\ pc = "find_loop"
    /\ npages < MaxFindPages
    /\ npages' = npages + 1
    /\ pc' = "TypeError"
    /\ UNCHANGED <<prog, moreVars, execVars, mutVars, url, tickets, tix, unique_ticket_ids,
                   sentinels, missingNext, findVars, pklVars>>

InitFindTicket ==
    /\ prog = "find_ticket"
    /\ pc = "find_loop"
    /\ ExecInit
    /\ MutIdle
    /\ \E w \in Watermarks : url = Url(w)
    /\ tickets = <<>>
    /\ tix = <<>>
    /\ unique_ticket_ids = {}
    /\ npages = 0
    /\ sentinels = 0
    /\ missingNext = FALSE
    /\ last_start_time = NoTime
    /\ num_consecutive_small_diffs = 0
    /\ now = ClockStart
    /\ smallrun = 0
    /\ allRecent = TRUE
    /\ pickle = NoPickle
    /\ runs = 0
    /\ FiltIdle
    /\ GhostIdle
    /\ ProgIdle

NextFindTicket == FindTicketPage \/ FindFetchFail

SpecFindTicket == InitFindTicket /\ [][NextFindTicket]_vars

(***************************************************************************)
(* _find_tickets of find_visible_deleted_tickets.py: the walk that         *)
(* collects the tickets of status 'deleted', with its checkpoint file.     *)
(***************************************************************************)
DelA == [id |-> 1, status |-> "deleted"]

OpenB == [id |-> 2, status |-> "open"]

DelC == [id |-> 3, status |-> "deleted"]

DeletedRecLists == {<<>>, <<DelA>>, <<DelA, OpenB, DelC>>, <<DelC, DelA>>}

DeletedPages ==
    {[has_recs |-> TRUE, recs |-> l, has_next |-> TRUE, next |-> u] :
        l \in DeletedRecLists, u \in {Url(1), Url(2)}}
    \cup {[has_recs |-> TRUE, recs |-> <<DelA>>, has_next |-> TRUE, next |-> NullUrl],
          [has_recs |-> TRUE, recs |-> <<DelC, DelA>>, has_next |-> FALSE, next |-> NullUrl],
          [has_recs |-> FALSE, recs |-> <<>>, has_next |-> FALSE, next |-> NullUrl]}

\* The for loop over the first k tickets of a page: a ticket of status
\* 'deleted' whose id is not in the seen set is added to both collections.
RECURSIVE Collect(_, _, _)
Collect(recs, k, acc) ==
    IF k = 0 \/ recs = <<>> THEN acc
    ELSE LET t == Head(recs)
             new == t.status = "deleted" /\ t.id \notin acc.ids
         IN  Collect(Tail(recs), k - 1,
                [tix |-> IF new THEN Append(acc.tix, t) ELSE acc.tix,
                 ids |-> IF new THEN acc.ids \cup {t.id} ELSE acc.ids])

\* The loop stopped between unique_ticket_ids.add and tix.append of ticket
\* k + 1 (half), or before that ticket.
CollectCut(recs, k, half, acc) ==
    LET done == Collect(recs, k, acc) IN
    IF /\ half
       /\ k < Len(recs)
       /\ recs[k + 1].status = "deleted"
       /\ recs[k + 1].id \notin done.ids
    THEN [tix |-> done.tix, ids |-> done.ids \cup {recs[k + 1].id}]
    ELSE done

\* store_to_pickle and load_from_pickle: the three objects dumped, in order.
store_to_pickle(u, collected, seen) ==
    [exists |-> TRUE, objs |-> <<u, collected, seen>>]

\* load_from_pickle that reads nothing: the state of a new walk.
load_from_pickle_fresh(file) == <<Url(0), <<>>, {}>>

load_from_pickle(file) == <<file.objs[1], file.objs[2], file.objs[3]>>

\* The feeds fixed for a walk: page i holds the i-th record list and names
\* page i + 1 as its next page; the last page has no next_page.
FeedOf(lists) ==
    [i \in 1..Len(lists) |->
        [has_recs |-> TRUE, recs |-> lists[i], has_next |-> i < Len(lists),
         next |-> IF i < Len(lists) THEN Url(i) ELSE NullUrl]]

Feeds ==
    {FeedOf(<<a>>) : a \in DeletedRecLists}
    \cup {FeedOf(<<a, b>>) : a, b \in DeletedRecLists}
    \cup {FeedOf(<<<<DelA>>, <<DelA, OpenB, DelC>>, <<DelC, DelA>>>>)}

\* The bodies the remote service may answer the request of cursor u with:
\* any page, or the page of the fixed feed.
ServedPages(u) ==
    IF feed = NoFeed THEN DeletedPages
    ELSE IF u \in {Url(i - 1) : i \in 1..Len(feed)} THEN {feed[u.st + 1]}
    ELSE {}

\* The process starts and _find_tickets runs up to its loop: the state is
\* that of a new walk, or the one of the checkpoint file, which is removed.
DeletedStart ==
    /\ prog = "find_tickets"
    /\ pc \in {"main", "walk_done", "CalledProcessError"}
    /\ runs < MaxRuns
    /\ runs' = runs + 1
    /\ pc' = "deleted_loop"
    /\ missingNext' = FALSE
    /\ IF pickle.exists
       THEN /\ url' = load_from_pickle(pickle)[1]
            /\ tix' = load_from_pickle(pickle)[2]
            /\ unique_ticket_ids' = load_from_pickle(pickle)[3]
            /\ pickle' = NoPickle
       ELSE /\ url' = Url(0)
            /\ tix' = <<>>
            /\ unique_ticket_ids' = {}
            /\ pickle' = pickle
    /\ runreqs' = <<>>
    /\ UNCHANGED <<prog, progVars, filtVars, fetched, spent, execVars, mutVars, tickets, npages,
                   sentinels, findVars>>

\* One pass of `while True`: the page at url is fetched with curl and its
\* deleted tickets collected; the loop ends when the body has no tickets or
\* no next_page.
DeletedPage ==
    /\ prog = "find_tickets"
    /\ pc = "deleted_loop"
    /\ url # NullUrl
    /\ npages < MaxDeletedPages
    /\ npages' = npages + 1
    /\ \E page \in ServedPages(url) :
        LET got == Collect(page.recs, Len(page.recs),
                           [tix |-> tix, ids |-> unique_ticket_ids])
        IN  IF ~page.has_recs
            THEN /\ pc' = "walk_done"
                 /\ UNCHANGED <<url, tix, unique_ticket_ids, missingNext>>
            ELSE /\ tix' = got.tix
                 /\ unique_ticket_ids' = got.ids
                 /\ IF page.has_next
                    THEN /\ url' = page.next
                         /\ pc' = "deleted_loop"
                         /\ missingNext' = missingNext
                    ELSE /\ url' = url
                         /\ pc' = "walk_done"
                         /\ missingNext' = TRUE
    /\ runreqs' = Append(runreqs, url)
    /\ UNCHANGED <<prog, progVars, filtVars, fetched, spent, execVars, mutVars, tickets, sentinels,
                   findVars, pklVars>>

\* curl fails, or its output is no JSON: nothing catches the exception.
DeletedFetchFail ==
    /\ prog = "find_tickets"
    /\ pc = "deleted_loop"
    /\ npages < MaxDeletedPages
    /\ npages' = npages + 1
    /\ pc' = "CalledProcessError"
    /\ runreqs' = Append(runreqs, url)
    /\ UNCHANGED <<prog, progVars, filtVars, fetched, spent, execVars, mutVars, url, tickets, tix,
                   unique_ticket_ids,
                   sentinels, missingNext, findVars, pklVars>>

\* KeyboardInterrupt in the loop: during the fetch (k = 0), or after k
\* tickets of the page were looked at; the state is stored and tix returned.
DeletedInterrupt ==
    /\ prog = "find_tickets"
    /\ pc = "deleted_loop"
    /\ \E page \in ServedPages(url), half \in BOOLEAN :
        \E k \in 0..Len(page.recs) :
            LET got == CollectCut(page.recs, k, half,
                                  [tix |-> tix, ids |-> unique_ticket_ids])
            IN  /\ page.has_recs
                /\ tix' = got.tix
                /\ unique_ticket_ids' = got.ids
                /\ pickle' = store_to_pickle(url, got.tix, got.ids)
    /\ pc' = "walk_done"
    /\ UNCHANGED <<prog, moreVars, execVars, mutVars, url, tickets, npages, sentinels,
                   missingNext, findVars, runs>>

InitFindTickets ==
    /\ prog = "find_tickets"
    /\ pc = "main"
    /\ ExecInit
    /\ MutIdle
    /\ WalkIdle
    /\ FiltIdle
    /\ GhostIdle
    /\ ProgIdle

NextFindTickets ==
    DeletedStart \/ DeletedPage \/ DeletedFetchFail \/ DeletedInterrupt

SpecFindTickets == InitFindTickets /\ [][NextFindTickets]_vars

\* The walk over a fixed feed, every request answered: runs that end or are
\* interrupted, and the runs started after them.
InitResume ==
    /\ prog = "find_tickets"
    /\ pc = "main"
    /\ ExecInit
    /\ MutIdle
    /\ WalkIdle
    /\ FiltIdle
    /\ GhostIdle
    /\ num_retries_remaining = 0
    /\ feed \in Feeds
    /\ mainpc = "off"
    /\ query = NoQuery

NextResume == DeletedStart \/ DeletedPage \/ DeletedInterrupt

SpecResume == InitResume /\ [][NextResume]_vars

(***************************************************************************)
(* get_all_old_tickets_sorted after its walk has returned, and the lines   *)
(* of _main that follow it.                                                *)
(***************************************************************************)
\* IsOld for `_days_since_today(ticket_create_date) >= int(args['days'])`.
IsOldNonStrict(ticket_tuple, clock_date, threshold) ==
    days_since_today(ticket_tuple[2], clock_date) >= threshold

\* _days_since_today(ticket_create_date) > int(args['days'])
IsOld(ticket_tuple, clock_date, threshold) ==
    days_since_today(ticket_tuple[2], clock_date) > threshold

\* The for loop that fills old_tickets.
RECURSIVE OldTickets(_, _, _)
OldTickets(ts, clock_date, threshold) ==
    IF ts = <<>> THEN <<>>
    ELSE IF IsOld(Head(ts), clock_date, threshold)
         THEN <<Head(ts)>> \o OldTickets(Tail(ts), clock_date, threshold)
         ELSE OldTickets(Tail(ts), clock_date, threshold)

\* strptime raises ValueError for none of the tuples.
AllParse(ts) == \A i \in 1..Len(ts) : strptime(ts[i][2]).ok

\* The order of Python's str on the characters of a date.
CharCode(c) == IF c = "-" THEN 45 ELSE 48 + DigitVal(c)

RECURSIVE StrLess(_, _)
StrLess(a, b) ==
    IF b = <<>> THEN FALSE
    ELSE IF a = <<>> THEN TRUE
    ELSE IF Head(a) = Head(b) THEN StrLess(Tail(a), Tail(b))
    ELSE CharCode(Head(a)) < CharCode(Head(b))

\* Insert that puts a tuple before the tuples of the same date.
RECURSIVE InsertBeforeEqual(_, _)
InsertBeforeEqual(s, t) ==
    IF s = <<>> THEN <<t>>
    ELSE IF ~StrLess(Head(s)[2], t[2]) THEN <<t>> \o s
    ELSE <<Head(s)>> \o InsertBeforeEqual(Tail(s), t)

\* sorted(old_tickets, key=itemgetter(1)): a stable sort on the date string.
\* A tuple is put behind every tuple whose date is not greater.
RECURSIVE Insert(_, _)
Insert(s, t) ==
    IF s = <<>> THEN <<t>>
    ELSE IF StrLess(t[2], Head(s)[2]) THEN <<t>> \o s
    ELSE <<Head(s)>> \o Insert(Tail(s), t)

RECURSIVE sorted(_)
sorted(s) ==
    IF s = <<>> THEN <<>>
    ELSE Insert(sorted(SubSeq(s, 1, Len(s) - 1)), s[Len(s)])

\* The status test of the filter that is handed an allow-list.
StatusAllowed(ticket_tuple, allow) ==
    allow.isNone \/ TicketStatus[ticket_tuple[1]] \in allow.set

RECURSIVE AllowedTickets(_, _)
AllowedTickets(ts, allow) ==
    IF ts = <<>> THEN <<>>
    ELSE IF StatusAllowed(Head(ts), allow)
         THEN <<Head(ts)>> \o AllowedTickets(Tail(ts), allow)
         ELSE AllowedTickets(Tail(ts), allow)

\* get_all_old_tickets_sorted from the return of its walk: the old tickets
\* are picked and returned sorted by date.
FilterOld ==
    /\ \/ prog = "filter" /\ pc = "main"
       \/ mainpc \in {"enum1", "enum2"} /\ pc = "walk_done"
    /\ allowed.isNone
    /\ IF AllParse(tickets)
       THEN /\ old_tickets' = sorted(OldTickets(tickets, today, days))
            /\ pc' = "filter_done"
       ELSE /\ old_tickets' = old_tickets
            /\ pc' = "ValueError"
    /\ UNCHANGED <<prog, progVars, execVars, mutVars, walkVars, today, days, allowed, ghostVars>>

\* The filter of the variant that is handed a status allow-list.
FilterAllowed ==
    /\ prog = "filter"
    /\ pc = "main"
    /\ ~allowed.isNone
    /\ IF AllParse(tickets)
       THEN /\ old_tickets' =
                 sorted(AllowedTickets(OldTickets(tickets, today, days), allowed))
            /\ pc' = "filter_done"
       ELSE /\ old_tickets' = old_tickets
            /\ pc' = "ValueError"
    /\ UNCHANGED <<prog, progVars, execVars, mutVars, walkVars, today, days, allowed, ghostVars>>

\* ids = [ticket[0] for ticket in tickets]
TicketIds(ts) == [i \in 1..Len(ts) |-> ts[i][1]]

\* _main from the return of get_all_old_tickets_sorted to the prompt: the
\* ids are taken and the first and last ticket printed, which fails on an
\* empty list.
MainIds ==
    /\ prog = "filter" \/ mainpc = "enum1"
    /\ pc = "filter_done"
    /\ idsIn' = TicketIds(old_tickets)
    /\ ids' = TicketIds(old_tickets)
    /\ pc' = IF old_tickets = <<>> THEN "IndexError" ELSE "prompt"
    /\ mainpc' = IF mainpc = "enum1" /\ old_tickets # <<>> THEN "prompt" ELSE mainpc
    /\ UNCHANGED <<prog, filtVars, ghostVars, num_retries_remaining, feed, query,
                   execVars, phase, batches, acks, walkVars>>

InitFilter ==
    /\ prog = "filter"
    /\ pc = "main"
    /\ ExecInit
    /\ MutIdle
    /\ url = NullUrl
    /\ tickets \in TicketLists
    /\ tix = <<>>
    /\ unique_ticket_ids = {}
    /\ npages = 0
    /\ sentinels = 0
    /\ missingNext = FALSE
    /\ last_start_time = NoTime
    /\ num_consecutive_small_diffs = 0
    /\ now = ClockStart
    /\ smallrun = 0
    /\ allRecent = TRUE
    /\ pickle = NoPickle
    /\ runs = 0
    /\ today \in Todays
    /\ days \in DaysArgs
    /\ allowed \in {NoAllowList} \cup AllowLists
    /\ old_tickets = <<>>
    /\ GhostIdle
    /\ ProgIdle

NextFilter == FilterOld \/ FilterAllowed \/ MainIds

SpecFilter == InitFilter /\ [][NextFilter]_vars

(***************************************************************************)
(* _main of delete_old_tickets.py as a whole: the enumeration, the         *)
(* confirmation prompt, the deletion and the second enumeration.           *)
(***************************************************************************)
\* prompt.query_yes_no answered no: the deletion and the second enumeration
\* are run all the same.
PromptNoStillDeletes ==
    /\ mainpc = "prompt"
    /\ pc = "prompt"
    /\ mainpc' = "declined"
    /\ MutateLoop
    /\ UNCHANGED <<prog, filtVars, ghostVars, num_retries_remaining, feed, query,
                   idsIn, phase, acks, walkVars>>

\* prompt.query_yes_no answered yes: delete_tickets(args, ids) is entered.
PromptYes ==
    /\ mainpc = "prompt"
    /\ pc = "prompt"
    /\ mainpc' = "deleting"
    /\ MutateLoop
    /\ UNCHANGED <<prog, filtVars, ghostVars, num_retries_remaining, feed, query,
                   idsIn, phase, acks, walkVars>>

\* prompt.query_yes_no answered no: "No tickets deleted."
PromptNo ==
    /\ mainpc = "prompt"
    /\ pc = "prompt"
    /\ mainpc' = "declined"
    /\ pc' = "main_done"
    /\ UNCHANGED <<prog, filtVars, ghostVars, num_retries_remaining, feed, query,
                   execVars, mutVars, walkVars>>

\* delete_tickets returned: get_all_old_tickets_sorted is called again.
SecondEnumeration ==
    /\ mainpc = "deleting"
    /\ pc = "mutate_done"
    /\ mainpc' = "enum2"
    /\ url' = Url(0)
    /\ tickets' = <<>>
    /\ WalkIssue(Url(0))
    /\ query' = get_first_new_date(today, days)
    /\ UNCHANGED <<prog, filtVars, ghostVars, num_retries_remaining, feed, mutVars,
                   tix, unique_ticket_ids, sentinels, missingNext, findVars, pklVars>>

\* "After deletion, %d old tickets remain."
MainReport ==
    /\ mainpc = "enum2"
    /\ pc = "filter_done"
    /\ mainpc' = "done"
    /\ pc' = "main_done"
    /\ UNCHANGED <<prog, filtVars, ghostVars, num_retries_remaining, feed, query,
                   execVars, mutVars, walkVars>>

InitMain ==
    /\ prog = "search"
    /\ pc = "main"
    /\ ExecInit
    /\ MutIdle
    /\ WalkIdle
    /\ today \in Todays
    /\ days \in DaysArgs
    /\ allowed = NoAllowList
    /\ old_tickets = <<>>
    /\ GhostIdle
    /\ num_retries_remaining = 0
    /\ feed = NoFeed
    /\ mainpc = "enum1"
    /\ query = NoQuery

NextMain ==
    \/ WalkStart \/ WalkAttempt \/ WalkReturnNone \/ WalkReturnPage \/ WalkRaise
    \/ FilterOld \/ MainIds \/ PromptYes \/ PromptNo
    \/ MutateAttempt \/ MutateReturn \/ MutateRaise
    \/ SecondEnumeration \/ MainReport

SpecMain == InitMain /\ [][NextMain]_vars

(***************************************************************************)
(* fetch_curl and _get_command_result of http.py: the request made by      *)
(* running the curl command.                                               *)
(***************************************************************************)
NUM_SEC_SLEEP_DEFAULT == 60

\* What the command prints: the JSON body after curl's own output, or an
\* output without any '{'.
CurlOutputs ==
    {[has_brace |-> TRUE, json |-> "body1"], [has_brace |-> FALSE, json |-> NoBody]}

\* fetch_curl builds the command and enters _get_command_result.
FetchCurl ==
    /\ prog = "curl"
    /\ pc = "main"
    /\ pc' = "cmd_loop"
    /\ num_retries_remaining' = NUM_SEC_SLEEP_DEFAULT
    /\ fpc' = "try"
    /\ nreq' = 0
    /\ nfail' = 0
    /\ sleeps' = 0
    /\ fresult' = None
    /\ ncalls' = ncalls + 1
    /\ UNCHANGED <<prog, attempt, last, mutVars, walkVars, filtVars, ghostVars,
                   feed, mainpc, query>>

\* One pass of `while num_retries_remaining > 0`: check_output returns the
\* output, or raises CalledProcessError, which is answered by a sleep and
\* the decrement; when the counter is used up the function ends without a
\* return statement.
CommandRun ==
    /\ prog = "curl"
    /\ pc = "cmd_loop"
    /\ fpc = "try"
    /\ num_retries_remaining > 0
    /\ nreq' = nreq + 1
    /\ \/ /\ \E o \in CurlOutputs : fresult' = Some(o)
          /\ fpc' = "returned"
          /\ UNCHANGED <<num_retries_remaining, nfail, sleeps>>
       \/ /\ nfail' = nfail + 1
          /\ sleeps' = sleeps + 1
          /\ num_retries_remaining' = num_retries_remaining - 1
          /\ fresult' = None
          /\ fpc' = IF num_retries_remaining - 1 > 0 THEN "try" ELSE "returned"
    /\ UNCHANGED <<prog, pc, attempt, last, ncalls, mutVars, walkVars, filtVars,
                   ghostVars, feed, mainpc, query>>

\* fetch_curl after _get_command_result: result[result.index('{'):]
FetchCurlReturn ==
    /\ prog = "curl"
    /\ pc = "cmd_loop"
    /\ fpc = "returned"
    /\ pc' = IF fresult.isNone THEN "AttributeError"
             ELSE IF fresult.body.has_brace THEN "curl_done"
             ELSE "ValueError"
    /\ UNCHANGED <<prog, execVars, mutVars, walkVars, moreVars>>

InitCurl ==
    /\ prog = "curl"
    /\ pc = "main"
    /\ ExecInit
    /\ MutIdle
    /\ WalkIdle
    /\ FiltIdle
    /\ GhostIdle
    /\ ProgIdle

NextCurl == FetchCurl \/ CommandRun \/ FetchCurlReturn

SpecCurl == InitCurl /\ [][NextCurl]_vars

(***************************************************************************)
(* Specification SpecFetch: a caller that issues up to MaxCalls logical    *)
(* requests, one after the other, whatever the outcome of the earlier.     *)
(***************************************************************************)
CallerRequest ==
    /\ prog = "fetch"
    /\ fpc \in {"idle", "returned", "raised"}
    /\ ncalls < MaxCalls
    /\ FetchStart
    /\ UNCHANGED <<prog, moreVars, pc, mutVars, walkVars>>

CallerAttempt ==
    /\ prog = "fetch"
    /\ \E r \in OkResponses(OpaqueBodies) \cup ErrorResponses : FetchAttempt(r)
    /\ spent' = spent + 1
    /\ UNCHANGED <<prog, progVars, filtVars, fetched, runreqs, pc, mutVars, walkVars>>


InitFetch ==
    /\ prog = "fetch"
    /\ pc = "main"
    /\ ExecInit
    /\ MutIdle
    /\ WalkIdle
    /\ FiltIdle
    /\ GhostIdle
    /\ ProgIdle

NextFetch == CallerRequest \/ CallerAttempt

SpecFetch == InitFetch /\ [][NextFetch]_vars

(***************************************************************************)
(* Properties.                                                             *)
(***************************************************************************)
RECURSIVE ConcatIds(_)
ConcatIds(bs) ==
    IF bs = <<>> THEN <<>> ELSE ConcatIds(SubSeq(bs, 1, Len(bs) - 1)) \o bs[Len(bs)].url.ids

CeilDiv(n, d) == (n + d - 1) \div d

\* C1: every bulk request of delete_tickets carries at most 100 ids, the
\* batches issued so far are, concatenated in issue order, a prefix of the
\* id list, and when delete_tickets returns it has issued exactly
\* ceil(n/100) requests whose concatenation is the whole id list.
C1_Batching ==
    /\ \A i \in 1..Len(batches) : Len(batches[i].url.ids) <= BatchSize
    /\ ConcatIds(batches) = Take(idsIn, Len(ConcatIds(batches)))
    /\ Len(batches) <= CeilDiv(Len(idsIn), BatchSize)
    /\ pc = "mutate_done" =>
          /\ Len(batches) = CeilDiv(Len(idsIn), BatchSize)
          /\ ConcatIds(batches) = idsIn

\* 250 ids were deleted in batches of 100, 100 and 50.
C1_Witness ==
    /\ pc = "mutate_done"
    /\ Len(idsIn) = 250
    /\ Len(batches) = 3
    /\ Len(batches[1].url.ids) = 100
    /\ Len(batches[2].url.ids) = 100
    /\ Len(batches[3].url.ids) = 50

\* C2: a SCRUB request is issued only after every DELETE batch of the id
\* list was issued and acknowledged (answered 2xx) by the remote service:
\* every DELETE batch comes before it, the DELETE batches cover the id list,
\* and each of them was acknowledged.
DeleteBatches == {i \in 1..Len(batches) : batches[i].phase = "DELETE"}

C2_ScrubAfterAckedDelete ==
    \A j \in 1..Len(batches) :
        batches[j].phase = "SCRUB" =>
            /\ \A i \in DeleteBatches : i < j /\ i <= Len(acks) /\ acks[i] = "ok"
            /\ Cardinality(DeleteBatches) = CeilDiv(Len(idsIn), BatchSize)

\* C3: once an attempt is answered 422 (or by a URLError whose reason is
\* 'Unprocessable Entity') the executor has returned None: it did not sleep
\* for that attempt (one sleep per earlier attempt only), did not raise and
\* makes no further attempt.
C3_SentinelReturnsNone ==
    IsSentinel(last) =>
        /\ fpc = "returned"
        /\ fresult = None
        /\ sleeps = nreq - 1
        /\ nfail = nreq - 1

\* The sentinel came as a URLError on the last attempt of the budget.
C3_Witness ==
    /\ IsSentinel(last)
    /\ last.kind = "URLError"
    /\ nreq = NUM_HTTP_RETRIES + 1
    /\ fpc = "returned"

\* C4: a logical request never takes more than max_retries + 1 attempts, and
\* it ends in MaxTriesExceededError exactly when max_retries + 1 attempts
\* were all answered by a retriable failure.
C4_ExactlyMaxAttempts ==
    /\ nreq <= NUM_HTTP_RETRIES + 1
    /\ fpc = "raised" <=> nfail = NUM_HTTP_RETRIES + 1
    /\ fpc = "raised" => nreq = NUM_HTTP_RETRIES + 1
    /\ fpc = "try" => nreq = nfail /\ nreq <= NUM_HTTP_RETRIES

\* Four failures in a row ended in MaxTriesExceededError.
C4_Witness ==
    /\ fpc = "raised"
    /\ nreq = 4
    /\ nfail = 4

\* C5: an attempt answered 2xx ends the request with the body of that
\* response, and a request that returned a body was answered by k <=
\* max_retries retriable failures and then the 2xx response, and slept
\* exactly k times.
C5_BodyAfterKSleeps ==
    /\ last.kind = "ok" => fpc = "returned" /\ fresult = Some(last.body)
    /\ (fpc = "returned" /\ ~fresult.isNone) =>
          /\ last.kind = "ok"
          /\ fresult.body = last.body
          /\ nreq = nfail + 1
          /\ sleeps = nfail
          /\ nfail <= NUM_HTTP_RETRIES

\* Two retriable failures, then a 2xx body, after two sleeps.
C5_Witness ==
    /\ fpc = "returned"
    /\ fresult = Some("body2")
    /\ nfail = 2
    /\ sleeps = 2

\* C6: an attempt answered by a rate limit (429, or a URLError 'Too Many
\* Requests') is one attempt of the budget, is followed by one sleep and then
\* by the next attempt or, as the last attempt of the budget, by
\* MaxTriesExceededError; it returns nothing and the process goes on.
C6_RateLimitRetried ==
    [][(nreq' = nreq + 1 /\ IsRateLimit(last')) =>
          /\ sleeps' = sleeps + 1
          /\ nfail' = nfail + 1
          /\ fresult' = None
          /\ pc' = pc
          /\ IF nreq' <= NUM_HTTP_RETRIES
             THEN fpc' = "try" /\ attempt' = attempt + 1
             ELSE fpc' = "raised"]_vars

\* A rate limit on the last attempt of the budget.
C6_Witness ==
    /\ IsRateLimit(last)
    /\ fpc = "raised"
    /\ sleeps = NUM_HTTP_RETRIES + 1

\* C7: in the incremental walk, once the executor has returned None the
\* walk has stopped: it has returned its tickets and no request is in flight.
C7_SentinelStopsWalk ==
    (prog = "incremental" /\ sentinels > 0) => (pc = "walk_done" /\ fpc # "try")

\* The ways a walk ends in a fatal error.
FatalPcs == {"sys.exit", "AssertionError", "AttributeError", "TypeError",
             "MaxTriesExceededError", "CalledProcessError"}

\* C8: once a parsed page lacked the next_page field the walk has ended in a
\* fatal error, not as if the stream had finished.
C8_MissingNextIsFatal == missingNext => pc \in FatalPcs

\* C9: in a walk all of whose watermarks lie in the last 24 hours the counter
\* of the heuristic counts the consecutive deltas of at most 10 seconds, the
\* walk has given up as soon as there are three of them, not before, and
\* once it has given up it requests no further page.
C9_StopsAfterThirdSmallDelta ==
    /\ [](allRecent =>
            /\ num_consecutive_small_diffs = smallrun
            /\ smallrun >= 3 => pc = "gave_up"
            /\ pc = "gave_up" => smallrun = 3)
    /\ [][pc = "gave_up" => (npages' = npages /\ pc' = pc)]_vars

\* The walk gave up after three small deltas with pages left to request.
C9_Witness ==
    /\ allRecent
    /\ pc = "gave_up"
    /\ smallrun = 3
    /\ npages < MaxFindPages

\* C10: on every page transition the counter goes up by one exactly when the
\* watermark just read lies in the last 24 hours and the delta to the next
\* one is at most 10 seconds, and is reset to zero otherwise; the walk gives
\* up exactly when the counter reaches 3.  (Stated for the transitions of a
\* feed whose watermark does not go back.)
C10_CounterRule ==
    [][(/\ npages' = npages + 1
        /\ pc' \in {"find_loop", "gave_up"}
        /\ get_start_time(url') >= get_start_time(url)) =>
          /\ num_consecutive_small_diffs' =
                IF /\ InLast24Hours(last_start_time', now')
                   /\ get_start_time(url') - last_start_time' <= 10
                THEN num_consecutive_small_diffs + 1
                ELSE 0
          /\ pc' = "gave_up" <=> num_consecutive_small_diffs' = 3]_vars

\* The tuples of a list whose id is i.
Occurs(ts, i) == {k \in 1..Len(ts) : ts[k][1] = i}

\* The age in days of the date string of a tuple at the date of the clock.
AgeDays(ticket_tuple) ==
    toordinal(today) - toordinal(strptime(ticket_tuple[2]))

FilterReturned == prog = "filter" /\ pc \in {"filter_done", "prompt", "IndexError"}

InputPlace(i) == CHOOSE k \in 1..Len(tickets) : tickets[k][1] = i

\* The day number of the creation date of a tuple.
CreatedDay(ticket_tuple) == toordinal(strptime(ticket_tuple[2]))

\* C12: the list the filter returns is in ascending order of creation date,
\* tickets of the same creation date are in the order they had in the input,
\* and the ids _main takes from it are in the same, oldest-first, order.
C12_SortedStable ==
    /\ FilterReturned =>
          \A i, j \in 1..Len(old_tickets) :
              i < j =>
                  /\ CreatedDay(old_tickets[i]) <= CreatedDay(old_tickets[j])
                  /\ CreatedDay(old_tickets[i]) = CreatedDay(old_tickets[j]) =>
                        InputPlace(old_tickets[i][1]) < InputPlace(old_tickets[j][1])
    /\ (prog = "filter" /\ pc \in {"prompt", "IndexError"}) =>
          /\ Len(idsIn) = Len(old_tickets)
          /\ \A i \in 1..Len(idsIn) : idsIn[i] = old_tickets[i][1]

\* Tickets 3 and 1 of 2015-01-31 and, between them in the input, ticket 2 of
\* 2014-12-01: the ids handed on are 2, 3, 1.
C12_Witness ==
    /\ prog = "filter"
    /\ pc = "prompt"
    /\ tickets = <<<<3, Jan31>>, <<2, Dec01>>, <<1, Jan31>>>>
    /\ idsIn = <<2, 3, 1>>

\* C13: a walk whose page request ended in MaxTriesExceededError has not
\* returned a ticket list: the exception is on its way to the caller.
C13_RaiseIsFatal ==
    (prog \in {"search", "incremental"} /\ fpc = "raised") =>
        pc \in {"walk_wait", "MaxTriesExceededError"}

\* C14: once the request of a batch ended in MaxTriesExceededError,
\* delete_tickets has failed with it: that batch is the last one issued, every
\* batch before it was answered, the batches issued are a prefix of the id
\* list (none twice), one logical request was made per batch, and nothing is
\* issued afterwards.
C14_FailFast ==
    /\ []((prog = "delete_tickets" /\ \E i \in 1..Len(acks) : acks[i] = "raised") =>
            /\ pc = "MaxTriesExceededError"
            /\ Len(acks) = Len(batches)
            /\ \A i \in 1..(Len(acks) - 1) : acks[i] \in {"ok", "none"}
            /\ acks[Len(acks)] = "raised"
            /\ ncalls = Len(batches)
            /\ ConcatIds(batches) = Take(idsIn, Len(ConcatIds(batches))))
    /\ [][pc = "MaxTriesExceededError" =>
            (batches' = batches /\ ncalls' = ncalls /\ nreq' = nreq /\ pc' = pc)]_vars

\* The second of three batches exhausted its retries: the third batch, ids
\* 201 to 250, was not issued.
C14_Witness ==
    /\ prog = "delete_tickets"
    /\ pc = "MaxTriesExceededError"
    /\ Len(idsIn) = 250
    /\ acks = <<"ok", "raised">>
    /\ Len(batches) = 2
    /\ Len(ids) = 50

\* A page body has arrived at the walk, with its collection of records.
PageArrived ==
    /\ pc = "walk_wait"
    /\ fpc = "returned"
    /\ ~fresult.isNone
    /\ fresult.body.has_recs

HasBad(recs) == \E k \in 1..Len(recs) : ~DateShape(recs[k].created_at)

FirstBad(recs) ==
    CHOOSE k \in 1..Len(recs) :
        /\ ~DateShape(recs[k].created_at)
        /\ \A j \in 1..(k - 1) : DateShape(recs[j].created_at)

\* C15: when a page holds a record whose created_at does not start with a
\* YYYY-MM-DD date the walk ends in sys.exit: the tickets collected are those
\* it had and the records of the page before the first such record, no page
\* is requested, and nothing happens afterwards.
C15_BadDateAborts ==
    /\ [][(PageArrived /\ HasBad(fresult.body.recs)) =>
            /\ pc' = "sys.exit"
            /\ tickets' = tickets \o
                  PageTuples(SubSeq(fresult.body.recs, 1,
                                    FirstBad(fresult.body.recs) - 1))
            /\ npages' = npages
            /\ ncalls' = ncalls]_vars
    /\ [][pc = "sys.exit" =>
            (pc' = pc /\ tickets' = tickets /\ npages' = npages /\ ncalls' = ncalls)]_vars

\* The incremental walk met 01/31/2015 as the second of three records: the
\* first record is the only one collected.
C15_Witness ==
    /\ prog = "incremental"
    /\ pc = "sys.exit"
    /\ ~missingNext
    /\ fresult.body.recs = <<RecA, RecSlash, RecB>>
    /\ tickets = <<<<1, Jan31>>>>

\* C16: every call of the executor starts at loop index 0 with no attempt
\* made, whatever the requests before it did; the index of a request under
\* way is the number of attempts made for it; and a retriable failure that
\* is not the last attempt of the budget is followed by another attempt.
C16_BudgetPerRequest ==
    /\ [](fpc = "try" => (attempt = nreq /\ nreq <= NUM_HTTP_RETRIES))
    /\ [](nreq <= NUM_HTTP_RETRIES + 1)
    /\ [][ncalls' = ncalls + 1 =>
            (attempt' = 0 /\ nreq' = 0 /\ sleeps' = 0 /\ fpc' = "try")]_vars
    /\ [][(nreq' = nreq + 1 /\ IsRetriable(last') /\ nreq' <= NUM_HTTP_RETRIES) =>
            fpc' = "try"]_vars

\* The third request made four attempts after the two requests before it
\* had used four attempts each.
C16_Witness ==
    /\ ncalls = 3
    /\ spent = 12
    /\ nreq = 4
    /\ fpc = "raised"

\* C17: the search walk holds, whenever it waits for a page or has returned,
\* the records of all the pages it read, in the order of the pages and of the
\* records in them; a page that names a next page is followed by the request
\* of that page, and a page whose next_page is null ends the walk with no
\* further request.
C17_SearchWalkComplete ==
    /\ []((prog = "search" /\ pc \in {"walk_wait", "walk_done"}) => tickets = fetched)
    /\ [][(/\ prog = "search"
           /\ PageArrived
           /\ ~HasBad(fresult.body.recs)
           /\ fresult.body.has_next) =>
            IF fresult.body.next = NullUrl
            THEN pc' = "walk_done" /\ npages' = npages /\ ncalls' = ncalls
            ELSE /\ url' = fresult.body.next
                 /\ pc' = "walk_wait"
                 /\ fpc' = "try"
                 /\ npages' = npages + 1]_vars

\* The walk read a page of tickets 1 and 2, then a page with ticket 2 again
\* and a null next_page, and returned the three tuples.
C17_Witness ==
    /\ prog = "search"
    /\ pc = "walk_done"
    /\ url = NullUrl
    /\ npages = 2
    /\ tickets = <<<<1, Jan31>>, <<2, Dec01>>, <<2, Dec01>>>>

\* C18: what load_from_pickle reads from the file an interrupt left is the
\* cursor, the tickets and the seen set of the interrupted walk; the file
\* changes at no other step than the save and the load; a run that finds
\* the file starts its loop at the saved cursor with the saved tickets and
\* seen set and removes the file; and the first request of a run is at the
\* cursor the run started with.
C18_ResumeFromCheckpoint ==
    /\ [][(~pickle.exists /\ pickle'.exists) =>
            load_from_pickle(pickle') = <<url', tix', unique_ticket_ids'>>]_vars
    /\ [][pickle' # pickle =>
            \/ (~pickle.exists /\ pickle'.exists /\ runs' = runs)
            \/ (pickle.exists /\ pickle' = NoPickle /\ runs' = runs + 1)]_vars
    /\ [][(pickle.exists /\ runs' = runs + 1) =>
            /\ <<url', tix', unique_ticket_ids'>> = pickle.objs
            /\ pc' = "deleted_loop"
            /\ runreqs' = <<>>]_vars
    /\ [][(runreqs = <<>> /\ runreqs' # <<>>) => runreqs' = <<url>>]_vars

\* The first run was interrupted at the second page; the second run made
\* its first request at that page, with ticket 1 already collected.
C18_Witness ==
    /\ prog = "find_tickets"
    /\ runs = 2
    /\ runreqs = <<Url(1)>>
    /\ tix # <<>>
    /\ tix[1] = DelA
    /\ 1 \in unique_ticket_ids

\* C19: the incremental walk collects no ticket beyond the cap, and once it
\* has collected as many tickets as the cap it requests no further page.
C19_CapStopsWalk ==
    /\ [](prog = "incremental" => Len(tickets) <= DebugCap)
    /\ [][(prog = "incremental" /\ Len(tickets) >= DebugCap) => npages' = npages]_vars

\* C20: a batch is issued only when the request of the batch before it was
\* answered by a success response.
C20_NextBatchAfterAck ==
    prog = "delete_tickets" =>
        \A i \in 2..Len(batches) : (i - 1 <= Len(acks) /\ acks[i - 1] = "ok")

\* C21: the request made with the curl command takes at most max_retries + 1
\* runs of the command, ends in MaxTriesExceededError once that many runs
\* have failed, and never hands a missing result (None) to its caller.
C21_CurlObeysContract ==
    prog = "curl" =>
        /\ nreq <= NUM_HTTP_RETRIES + 1
        /\ nfail >= NUM_HTTP_RETRIES + 1 => pc = "MaxTriesExceededError"
        /\ ~(fpc = "returned" /\ fresult.isNone)

\* C22: is_within_24hrs of the watermark just read is true exactly when the
\* watermark lies no more than 24 hours before the reading of the clock.
C22_Exactly24Hours ==
    (prog = "find_ticket" /\ last_start_time # NoTime) =>
        (is_within_24hrs(last_start_time, now) <=> InLast24Hours(last_start_time, now))

\* C23: every attempt answered by a retriable failure is followed by one
\* sleep, the last attempt of the budget included: the sleeps of a request
\* are as many as its failed attempts, a request that raised slept
\* max_retries + 1 times, and a request that returned on its i-th attempt
\* slept i - 1 times.
C23_OneSleepPerFailure ==
    /\ [](sleeps = nfail)
    /\ [](fpc = "raised" => sleeps = NUM_HTTP_RETRIES + 1)
    /\ [](fpc = "returned" => sleeps = nreq - 1)
    /\ [][(nreq' = nreq + 1 /\ IsRetriable(last')) => sleeps' = sleeps + 1]_vars

\* Four socket timeouts: the fourth sleep was made before the raise.
C23_Witness ==
    /\ prog = "fetch"
    /\ fpc = "raised"
    /\ last.kind = "socket.timeout"
    /\ nreq = 4
    /\ sleeps = 4

\* The ids of the tickets collected.
TixIds == {tix[i].id : i \in 1..Len(tix)}

\* C24: in every state of the walk of the deleted tickets no two collected
\* tickets have the same id, the ids of the collected tickets are the ids
\* of the seen set, and every collected ticket has the status 'deleted'.
C24_CollectedConsistent ==
    prog = "find_tickets" =>
        /\ \A i, j \in 1..Len(tix) : i # j => tix[i].id # tix[j].id
        /\ TixIds = unique_ticket_ids
        /\ \A i \in 1..Len(tix) : tix[i].status = "deleted"

\* The tickets a walk collects that reads the pages of a feed from the first
\* to the last without interruption.
RECURSIVE RunOver(_, _, _)
RunOver(f, i, acc) ==
    IF i > Len(f) THEN acc
    ELSE RunOver(f, i + 1, Collect(f[i].recs, Len(f[i].recs), acc))

FullRun(f) == RunOver(f, 1, [tix |-> <<>>, ids |-> {}]).tix

\* C25: a run that has read the feed to its end, with no checkpoint left,
\* holds the tickets of the uninterrupted walk over the feed, in their
\* order, whether it started anew or from the checkpoint of an interrupted
\* run.
C25_ResumeEqualsFullRun ==
    (feed # NoFeed /\ pc = "walk_done" /\ ~pickle.exists) => tix = FullRun(feed)

\* The creation dates looked at around the threshold: DateSlack days to
\* either side of the day that is `days` days before today.
DateSlack == 3

DateWindow ==
    {isoformat(fromordinal(n)) :
        n \in (toordinal(today) - days - DateSlack)..(toordinal(today) - days + DateSlack)}

\* C26: the date bound of the search query never excludes a record the local
\* filter would keep: once the search walk has built its query, every
\* creation date that is more than `days` days before today is below the
\* bound `created<...` of the query, and so is the date of every ticket the
\* filter has kept.
C26_BoundKeepsOldTickets ==
    (prog = "search" /\ query # NoQuery) =>
        /\ \A s \in DateWindow \cup {Jan31, Dec01, Leap29} :
              days_since_today(s, today) > days => StrLess(s, query)
        /\ \A k \in 1..Len(old_tickets) : StrLess(old_tickets[k][2], query)

\* The filter kept a ticket that is exactly days + 1 days old, the youngest
\* age it keeps, fetched under the bound of one day less.
C26_Witness ==
    /\ mainpc = "prompt"
    /\ days = DEFAULT_DAYS_OLD
    /\ query = get_first_new_date(today, DEFAULT_DAYS_OLD)
    /\ \E k \in 1..Len(old_tickets) :
          /\ old_tickets[k][2] = Jan31
          /\ days_since_today(old_tickets[k][2], today) = days + 1

\* What a step of _main may do to the requests issued so far.
MainOrderStep ==
    /\ batches' # batches =>
          /\ mainpc' = "deleting"
          /\ pc \in {"prompt", "mutate_wait"}
    /\ mainpc = "declined" => UNCHANGED <<batches, npages, ncalls, nreq>>
    /\ (mainpc' = "enum2" /\ mainpc # "enum2") =>
          /\ mainpc = "deleting"
          /\ pc = "mutate_done"
          /\ ids = <<>>
          /\ Len(acks) = Len(batches)
    /\ npages' # npages => mainpc' \in {"enum1", "enum2"}

\* C27: in _main no mutation request is issued before the first enumeration
\* has finished and the prompt was answered yes; after the answer no, the
\* run issues no mutation request and no page request; the second
\* enumeration starts only when delete_tickets has returned, every batch
\* answered, and no page is requested while the deletion runs.
C27_MainOrder ==
    /\ [](mainpc \in {"enum1", "prompt", "declined"} => batches = <<>>)
    /\ [][MainOrderStep]_vars

\* A run answered yes came to its end: a batch was deleted and answered,
\* and the second enumeration fetched a page after it.
C27_Witness ==
    /\ mainpc = "done"
    /\ pc = "main_done"
    /\ Len(batches) >= 1
    /\ Len(acks) = Len(batches)
    /\ npages >= 2

\* C28: delete_tickets hands get_bulk_delete_url between 1 and 100 ids on
\* every call, so that OverflowError is never raised and no request carries
\* an empty id list, and an empty id list issues no request at all.
C28_BulkUrlArgument ==
    prog = "delete_tickets" =>
        /\ pc # "OverflowError"
        /\ \A i \in 1..Len(batches) :
              /\ Len(batches[i].url.ids) >= 1
              /\ ~TooManyIds(batches[i].url.ids)
        /\ idsIn = <<>> => (batches = <<>> /\ ncalls = 0 /\ nreq = 0)

\* 101 ids were deleted in a batch of 100 and a batch of one.
C28_Witness ==
    /\ prog = "delete_tickets"
    /\ pc = "mutate_done"
    /\ Len(idsIn) = 101
    /\ Len(batches) = 2
    /\ Len(batches[1].url.ids) = 100
    /\ Len(batches[2].url.ids) = 1

=============================================================================
